---- MODULE Spec2Model ----
(***************************************************************************)
(* Metal Dispersion Analyzer v2.0 (src/metal_dispersion.cpp, lines 1-262). *)
(*                                                                         *)
(* The model follows main(): Material::loadData on the data file, the      *)
(* derived sequences (getOmega, getEnergy, computeEpsilon), the grid       *)
(* search over (omega_p, gamma) that minimises computeError, the report    *)
(* of the best parameters and the evaluation of the fitted Drude model.    *)
(*                                                                         *)
(* Numbers.  The program computes in IEEE doubles; the model computes in   *)
(* integers.  Frequencies, wavelengths and optical constants are small     *)
(* integers in scaled units (the unit of frequency is chosen so that       *)
(* 2*pi*c/1e-9 is TwoPiC), and permittivities and errors are fixed-point   *)
(* numbers with Scale units per 1, every division rounding down.          *)
(*                                                                         *)
(* The += of the two loops rounds its sum to the nearest double.  The      *)
(* model's loop variables have Precision significant bits: integers below  *)
(* 2^Precision are exact and the gap between neighbours doubles with every *)
(* power of two above.  With the program's defaults the grid values are    *)
(* exact doubles, as the small ranges of Init are in the model; FloatInit  *)
(* draws ranges that reach the magnitudes a step can be lost at.           *)
(*                                                                         *)
(* The non-finite doubles the inputs can produce are modelled too: x/0 and *)
(* a result beyond the largest finite double are PosInf, and inf/inf is    *)
(* NaN, which no comparison orders and every sum keeps.                    *)
(***************************************************************************)
EXTENDS Integers, Sequences, FiniteSets

\* ---------------------------------------------------------------- bounds
\* Longest input file, in rows.
MaxRows == 2
\* Most loadData calls a client makes on the Material (main makes one).
MaxLoads == 2
\* Fixed-point units per 1 of a permittivity or an error.
Scale == 100
\* Evaluations recorded in visited (one more than the largest finite grid).
MaxVisits == 7

\* ------------------------------------------------------ program constants
\* 2*pi*c / 1e-9 in model units of frequency * wavelength (lines 20, 21, 75).
TwoPiC == 12
\* 1240 eV nm in model units (line 85).
HC == 12
\* High-frequency permittivity (line 24; 4.3 in the program).
eps_inf == 4
\* The validity window of the Drude model (lines 28, 29).
omega_min == 3
omega_max == 4
\* best_error's initial value (line 195; 1e300 in the program), fixed-point.
Sentinel == 1000000000
\* The 1e-12 of the normalisation (line 168): the smallest positive
\* fixed-point number at the scale of norm.
NormEps == 1
\* IEEE +infinity, what x/0.0 gives for x > 0 (lines 75, 85) and what a
\* product beyond the largest finite double gives (line 111).
PosInf == 1000000
\* A finite double whose square is beyond the largest finite double (such as
\* 1e200, which the stream extraction reads like any other number).
Huge == 1000
\* IEEE NaN (line 169, inf/inf).  Errors that are numbers are >= 0.
NaN == -1
\* Significant bits of a loop variable (53 in a double).
Precision == 3

\* ----------------------------------------------------------------- inputs
\* A row of the input file that `file >> lambda >> comma >> n_real >> comma
\* >> n_imag` cannot extract.
Bad == <<>>

\* Rows <<wavelength, n, k>> the extraction reads.  Wavelengths 3 and 4 give
\* omega = omega_max and omega = omega_min, 2 gives an omega above the window,
\* 0 is a zero wavelength.  n = 2, k = 0 is a sample with eps1 = eps_inf and
\* eps2 = 0, which small plasma frequencies fit with error 0.  n = Huge is a
\* sample whose n*n is not finite.
GoodRows ==
  { <<3, 1, 2>>, <<4, 2, 1>>, <<4, 2, 0>>, <<2, 1, 1>>, <<0, 1, 1>>, <<4, Huge, 0>> }

Rows == GoodRows \cup {Bad}

RECURSIVE SeqsUpTo(_, _)
SeqsUpTo(S, len) ==
  IF len = 0 THEN { <<>> }
  ELSE LET shorter == SeqsUpTo(S, len - 1)
       IN  shorter \cup { Append(s, x) : s \in shorter, x \in S }

\* The contents the data file can have.
Files == SeqsUpTo(Rows, MaxRows)

\* Values of the search ranges and of the steps (lines 32-39), in model units.
\* They are fixed when the program is built; the model draws them at the start
\* so that a range with min >= max and steps that do or do not land on the
\* upper bound are all covered.
OmegaPMinVals == {1, 4}
OmegaPMaxVals == {4}
GammaMinVals == {1}
GammaMaxVals == {1, 3}
StepVals == {1, 2}

\* Files of FloatInit: a sample in the window, one whose n*n is not finite,
\* one outside the window, and a malformed row.
FloatFiles == SeqsUpTo({ <<3, 1, 2>>, <<4, Huge, 0>>, <<2, 1, 1>>, Bad }, MaxRows)

\* Ranges that reach 2^Precision, where neighbouring values are 2 apart.
FloatOmegaPMinVals == {8}
FloatOmegaPMaxVals == {12}
FloatGammaMinVals == {1, 8}
FloatGammaMaxVals == {3, 12}

\* What a read of front()/back() of an empty vector may deliver (line 104).
UndefinedReads == {0, 7}

VARIABLES
  file,          \* the rows of data/Ag_Palik_400-900nm.txt
  omega_p_min, omega_p_max, gamma_min, gamma_max,   \* lines 32-35
  domega_p, dgamma,                                 \* lines 38-39
  pc,            \* where main is
  wavelength_, n_, k_,                              \* Material's fields
  loads,         \* loadData calls made so far
  lastOpened,    \* whether the last loadData call could open the file
  lastResult,    \* how the last loadData call ended
  loadSummary,   \* the load summaries written to std::cout
  omega, energy, eps1_data, eps2_data,              \* main, lines 186-191
  best_error, best_omega_p, best_gamma,             \* main, lines 195-197
  omega_p, gamma,                                   \* the loop variables
  visited,       \* the points computeError was called at, in order
  fitReport,     \* the best-fit report written to std::cout
  eps1_model, eps2_model                            \* main, lines 223-228

config == <<file, omega_p_min, omega_p_max, gamma_min, gamma_max, domega_p, dgamma>>
material == <<wavelength_, n_, k_>>
loadState == <<loads, lastOpened, lastResult, loadSummary>>
derived == <<omega, energy, eps1_data, eps2_data>>
search == <<best_error, best_omega_p, best_gamma, omega_p, gamma, visited>>
output == <<fitReport, eps1_model, eps2_model>>
vars == <<config, pc, material, loadState, derived, search, output>>

\* ------------------------------------------------------------ Material
\* The rows the while loop of loadData pushes: the extraction stops at the
\* first row it cannot read, and the stream's failure ends the loop.
RECURSIVE ParsedRows(_)
ParsedRows(f) ==
  IF f = <<>> \/ Head(f) = Bad THEN <<>>
  ELSE <<Head(f)>> \o ParsedRows(Tail(f))

\* What the stream delivers: a stream that is not open delivers nothing.
ReadRows(opened) == IF opened THEN ParsedRows(file) ELSE <<>>

\* Lines 100-102 with a push_back that is skipped for a field that is 0.
ColumnSkipZero(rows, c) ==
  SelectSeq([i \in 1..Len(rows) |-> rows[i][c]], LAMBDA x : x # 0)

\* Lines 100-102: what the loop pushes onto one of the three vectors.
Column(rows, c) == [i \in 1..Len(rows) |-> rows[i][c]]

\* Lines 94-96: loadData throws when the file is not open.
OpenFailedNever(opened) == FALSE

OpenFailed(opened) == ~opened

\* Lines 71-79, one element.
getOmegaAt(lambda) == IF lambda = 0 THEN PosInf ELSE TwoPiC \div lambda

getOmega == [i \in 1..Len(wavelength_) |-> getOmegaAt(wavelength_[i])]

\* Lines 81-89, one element.
getEnergyAt(lambda) == IF lambda = 0 THEN PosInf ELSE HC \div lambda

getEnergy == [i \in 1..Len(wavelength_) |-> getEnergyAt(wavelength_[i])]

\* A double result: beyond the largest finite double it is +infinity.
Overflow(x) == IF x >= PosInf THEN PosInf ELSE x

\* Lines 108-117, with the sign of k*k slipped.
computeEpsilonSignSlip ==
  << [i \in 1..Len(wavelength_) |-> Overflow(n_[i] * n_[i] + k_[i] * k_[i])],
     [i \in 1..Len(wavelength_) |-> Overflow(2 * n_[i] * k_[i])] >>

\* Lines 108-117.
computeEpsilon ==
  << [i \in 1..Len(wavelength_) |-> Overflow(n_[i] * n_[i] - k_[i] * k_[i])],
     [i \in 1..Len(wavelength_) |-> Overflow(2 * n_[i] * k_[i])] >>

\* ------------------------------------------------------------- the fit
\* Lines 149-152: eps_inf - omega_p^2 / (omega^2 + i gamma omega), as
\* <<real part, imaginary part>> in fixed point.  A real divided by the
\* complex c + id is a(c - id)/(c^2 + d^2); an infinite denominator gives 0.
drude_eps(w, einf, wp, g) ==
  IF w = PosInf THEN <<einf * Scale, 0>>
  ELSE LET c == w * w
           d == g * w
           den == c * c + d * d
       IN  << einf * Scale - (wp * wp * c * Scale) \div den,
              (wp * wp * d * Scale) \div den >>

\* Line 159: the samples the loop does not skip.
InWindowExclusive(w) == ~(w <= omega_min \/ w >= omega_max)

InWindow(w) == ~(w < omega_min \/ w > omega_max)

\* Lines 161-169: what sample i adds to error.  With infinite data the
\* residual is infinite, so is norm, and their quotient is NaN.
Residual(i, om, einf, wp, g, e1, e2) ==
  IF e1[i] = PosInf \/ e2[i] = PosInf THEN NaN
  ELSE LET eps_model == drude_eps(om[i], einf, wp, g)
           real_error == eps_model[1] - e1[i] * Scale
           img_error == eps_model[2] - e2[i] * Scale
           norm == (e1[i] * e1[i] + e2[i] * e2[i]) * Scale * Scale + NormEps
       IN  ((real_error * real_error + img_error * img_error) * Scale) \div norm

\* Line 169: error += x.
AddError(error, x) == IF error = NaN \/ x = NaN THEN NaN ELSE error + x

\* Lines 155-172: the loop from index i on, with error so far.
RECURSIVE computeErrorFrom(_, _, _, _, _, _, _, _)
computeErrorFrom(i, error, om, einf, wp, g, e1, e2) ==
  IF i > Len(om) THEN error
  ELSE IF ~InWindow(om[i])
       THEN computeErrorFrom(i + 1, error, om, einf, wp, g, e1, e2)
       ELSE computeErrorFrom(i + 1,
                             AddError(error, Residual(i, om, einf, wp, g, e1, e2)),
                             om, einf, wp, g, e1, e2)

computeError(om, einf, wp, g, e1, e2) ==
  computeErrorFrom(1, 0, om, einf, wp, g, e1, e2)

\* Line 201, reading state that is no input of the fit: after a second
\* loadData call a tie replaces the incumbent.
ImprovesStale(err, best) ==
  err # NaN /\ (IF loads > 1 THEN err <= best ELSE err < best)

\* Line 201: the incumbent is replaced.  best_error is never NaN.
ImprovesWorse(err, best) == err # NaN /\ err > best

ImprovesOrTies(err, best) == err # NaN /\ err <= best

Improves(err, best) == err # NaN /\ err < best

\* The gap between v and the next value of Precision significant bits.
RECURSIVE Ulp(_)
Ulp(v) == IF v < 2 ^ Precision THEN 1 ELSE 2 * Ulp(v \div 2)

\* The nearest representable value, a tie going to the even significand.
RoundDouble(v) ==
  LET u == Ulp(v)
      r == v % u
      lo == v - r
  IN  IF 2 * r < u THEN lo
      ELSE IF 2 * r > u THEN lo + u
      ELSE IF (lo \div u) % 2 = 0 THEN lo ELSE lo + u

\* Lines 198-199: x += d.
PlusEq(x, d) == RoundDouble(x + d)

\* Line 198: the outer loop continues.
OuterCond(wp) == wp < omega_p_max

\* Line 199 with the lower bound tested in place of the loop variable.
InnerCondOnMin(g) == gamma_min < gamma_max

\* Line 199: the inner loop continues.
InnerCondInclusive(g) == g <= gamma_max

InnerCond(g) == g < gamma_max

\* ---------------------------------------------------------------- Init
\* The state main starts in, the configuration being chosen.
Constructed ==
  /\ pc = "load"
  /\ wavelength_ = <<>>
  /\ n_ = <<>>
  /\ k_ = <<>>
  /\ loads = 0
  /\ lastOpened = FALSE
  /\ lastResult = "none"
  /\ loadSummary = <<>>
  /\ omega = <<>>
  /\ energy = <<>>
  /\ eps1_data = <<>>
  /\ eps2_data = <<>>
  /\ best_error = Sentinel
  /\ best_omega_p = 0
  /\ best_gamma = 0
  /\ omega_p = omega_p_min
  /\ gamma = gamma_min
  /\ visited = <<>>
  /\ fitReport = <<>>
  /\ eps1_model = <<>>
  /\ eps2_model = <<>>

Init ==
  /\ file \in Files
  /\ omega_p_min \in OmegaPMinVals
  /\ omega_p_max \in OmegaPMaxVals
  /\ gamma_min \in GammaMinVals
  /\ gamma_max \in GammaMaxVals
  /\ domega_p \in StepVals
  /\ dgamma \in StepVals
  /\ Constructed

\* The same program built with ranges at larger magnitudes.
FloatInit ==
  /\ file \in FloatFiles
  /\ omega_p_min \in FloatOmegaPMinVals
  /\ omega_p_max \in FloatOmegaPMaxVals
  /\ gamma_min \in FloatGammaMinVals
  /\ gamma_max \in FloatGammaMaxVals
  /\ domega_p \in StepVals
  /\ dgamma \in StepVals
  /\ Constructed

\* --------------------------------------------------------------- actions
\* Material::loadData (lines 92-105).  `opened` is file.is_open().  An
\* exception leaves main (it has no handler).  With no sample in the vectors,
\* front() and back() at line 104 are undefined: the call crashes, or it
\* returns having written whatever the reads delivered.
loadData(opened) ==
  /\ pc = "load"
  /\ loads < MaxLoads
  /\ loads' = loads + 1
  /\ lastOpened' = opened
  /\ IF OpenFailed(opened)
     THEN /\ lastResult' = "threw"
          /\ pc' = "terminated"
          /\ UNCHANGED <<material, loadSummary>>
     ELSE LET rows == ReadRows(opened)
              wl == wavelength_ \o Column(rows, 1)
          IN  /\ wavelength_' = wl
              /\ n_' = n_ \o Column(rows, 2)
              /\ k_' = k_ \o Column(rows, 3)
              /\ IF Len(wl) > 0
                 THEN /\ loadSummary' = Append(loadSummary,
                             [size |-> Len(wl), front |-> wl[1], back |-> wl[Len(wl)]])
                      /\ lastResult' = "returned"
                      /\ pc' = "load"
                 ELSE \/ /\ lastResult' = "crashed"
                         /\ pc' = "crashed"
                         /\ UNCHANGED loadSummary
                      \/ \E u \in UndefinedReads :
                            /\ loadSummary' = Append(loadSummary,
                                   [size |-> 0, front |-> u, back |-> u])
                            /\ lastResult' = "returned"
                            /\ pc' = "load"
  /\ UNCHANGED <<config, derived, search, output>>

\* main, lines 182-198: the derived sequences, the initial incumbent and the
\* initialisation of the outer loop.
Derive ==
  /\ pc = "load"
  /\ lastResult = "returned"
  /\ omega' = getOmega
  /\ energy' = getEnergy
  /\ eps1_data' = computeEpsilon[1]
  /\ eps2_data' = computeEpsilon[2]
  /\ best_error' = Sentinel
  /\ best_omega_p' = 0
  /\ best_gamma' = 0
  /\ omega_p' = omega_p_min
  /\ pc' = "outer"
  /\ UNCHANGED <<config, material, loadState, gamma, visited, output>>

\* Line 198, the condition holds; line 199, the initialisation.
OuterEnter ==
  /\ pc = "outer"
  /\ OuterCond(omega_p)
  /\ gamma' = gamma_min
  /\ pc' = "inner"
  /\ UNCHANGED <<config, material, loadState, derived, best_error, best_omega_p,
                 best_gamma, omega_p, visited, output>>

\* Line 198, the condition fails.
OuterExit ==
  /\ pc = "outer"
  /\ ~OuterCond(omega_p)
  /\ pc' = "report"
  /\ UNCHANGED <<config, material, loadState, derived, search, output>>

\* Lines 199-206: one pass of the inner loop's body and its increment.
InnerBody ==
  /\ pc = "inner"
  /\ InnerCond(gamma)
  /\ LET err == computeError(omega, eps_inf, omega_p, gamma, eps1_data, eps2_data)
     IN  /\ visited' = IF Len(visited) < MaxVisits
                        THEN Append(visited, <<omega_p, gamma>>)
                        ELSE visited
         /\ IF Improves(err, best_error)
            THEN /\ best_error' = err
                 /\ best_omega_p' = omega_p
                 /\ best_gamma' = gamma
            ELSE UNCHANGED <<best_error, best_omega_p, best_gamma>>
  /\ gamma' = PlusEq(gamma, dgamma)
  /\ UNCHANGED <<config, pc, material, loadState, derived, omega_p, output>>

\* Line 199, the condition fails; line 198, the increment.
InnerExit ==
  /\ pc = "inner"
  /\ ~InnerCond(gamma)
  /\ omega_p' = PlusEq(omega_p, domega_p)
  /\ pc' = "outer"
  /\ UNCHANGED <<config, material, loadState, derived, best_error, best_omega_p,
                 best_gamma, gamma, visited, output>>

\* Lines 210-215: the best parameters are written out.
Report ==
  /\ pc = "report"
  /\ fitReport' = Append(fitReport,
        [omega_p |-> best_omega_p, gamma |-> best_gamma, error |-> best_error])
  /\ pc' = "model"
  /\ UNCHANGED <<config, material, loadState, derived, search, eps1_model, eps2_model>>

\* Lines 218-228: the model permittivity at the best parameters.
ComputeModel ==
  /\ pc = "model"
  /\ eps1_model' = [i \in 1..Len(omega) |->
                      drude_eps(omega[i], eps_inf, best_omega_p, best_gamma)[1]]
  /\ eps2_model' = [i \in 1..Len(omega) |->
                      drude_eps(omega[i], eps_inf, best_omega_p, best_gamma)[2]]
  /\ pc' = "done"
  /\ UNCHANGED <<config, material, loadState, derived, search, fitReport>>

Next ==
  \/ \E opened \in BOOLEAN : loadData(opened)
  \/ Derive
  \/ OuterEnter
  \/ OuterExit
  \/ InnerBody
  \/ InnerExit
  \/ Report
  \/ ComputeModel

Spec == Init /\ [][Next]_vars

\* main is one thread that runs until it returns: while a step is possible,
\* one is taken.
FloatSpec == FloatInit /\ [][Next]_vars /\ WF_vars(Next)

\* ------------------------------------------------------- claim vocabulary
SearchStarted == pc \in {"outer", "inner", "report", "model", "done"}

SearchDone == pc \in {"report", "model", "done"}

FitEnded == pc \in {"model", "done"}

\* The grid of the claims: min + i*step on each axis, strictly below max.
GridOmegaP ==
  { w \in { omega_p_min + i * domega_p : i \in 0..(omega_p_max - omega_p_min) } :
      w < omega_p_max }

GridGamma ==
  { g \in { gamma_min + j * dgamma : j \in 0..(gamma_max - gamma_min) } :
      g < gamma_max }

Grid == GridOmegaP \X GridGamma

\* computeError as main calls it at grid point p.
ErrAt(p) == computeError(omega, eps_inf, p[1], p[2], eps1_data, eps2_data)

\* err < 1e300, which no NaN satisfies.
BelowSentinel(err) == err # NaN /\ err < Sentinel

Incumbent == <<best_omega_p, best_gamma>>

LexLess(p, q) == p[1] < q[1] \/ (p[1] = q[1] /\ p[2] < q[2])

VisitedSet == { visited[i] : i \in 1..Len(visited) }

\* The samples of the validity window, both bounds inclusive.
WindowIndices == { i \in 1..Len(omega) : omega_min <= omega[i] /\ omega[i] <= omega_max }

RECURSIVE SumOver(_, _)
SumOver(S, p) ==
  IF S = {} THEN 0
  ELSE LET i == CHOOSE x \in S : TRUE
       IN  AddError(Residual(i, omega, eps_inf, p[1], p[2], eps1_data, eps2_data),
                    SumOver(S \ {i}, p))

\* The parameter pairs computeError is probed at.
ProbePoints == (1..3) \X (1..2)

\* The data file holds a row that cannot be parsed.
HasMalformedRow == \E i \in 1..Len(file) : file[i] = Bad

\* No load summary so far read front() and back() of an empty vector: what
\* the run did is defined by the language.
RunDefined ==
  /\ lastResult # "crashed"
  /\ \A i \in 1..Len(loadSummary) : loadSummary[i].size > 0

\* s repeated count times.
RECURSIVE Repeat(_, _)
Repeat(s, count) == IF count = 0 THEN <<>> ELSE s \o Repeat(s, count - 1)

\* ------------------------------------------------------------------ C1
\* C1: when the grid is non-empty and every grid point's error is below the
\* initial sentinel, then after the search the incumbent is a visited grid
\* point, best_error is computeError at it, and best_error is at most
\* computeError at every visited point and at every point of the grid.
C1_BestIsGridMinimum ==
  LET errs == [p \in Grid \cup VisitedSet |-> ErrAt(p)]
  IN  (SearchDone /\ Grid # {} /\ \A p \in Grid : BelowSentinel(errs[p]))
        => /\ Incumbent \in VisitedSet
           /\ Incumbent \in Grid
           /\ best_error = errs[Incumbent]
           /\ \A i \in 1..Len(visited) : best_error <= errs[visited[i]]
           /\ \A p \in Grid : best_error <= errs[p]

\* A finished search of six points whose minimum is at the fifth point
\* visited, with a positive error.
C1_Witness ==
  /\ pc = "done"
  /\ Len(visited) = 6
  /\ Incumbent = visited[5]
  /\ best_error > 0
  /\ \E i \in 1..Len(visited) : ErrAt(visited[i]) > best_error

C5_EmptyWindowReportsNoFit ==
  (FitEnded /\ RunDefined /\ Grid # {} /\ WindowIndices = {})
    => /\ fitReport = <<>>
       /\ \A i \in 1..Len(fitReport) : fitReport[i].error # 0

\* ------------------------------------------------------------------ C6
\* C6: if the dataset holds no sample, or the grid is empty because a range
\* has min >= max, the fit ends in a NoFitFoundError outcome and the
\* never-updated initial values are not reported as a fit result.  Stated of
\* the runs whose behaviour is defined.
C6_EmptyInputReportsNoFit ==
  (/\ FitEnded
   /\ RunDefined
   /\ (Len(omega) = 0 \/ omega_p_min >= omega_p_max \/ gamma_min >= gamma_max))
    => /\ fitReport = <<>>
       /\ \A i \in 1..Len(fitReport) :
             fitReport[i] # [omega_p |-> 0, gamma |-> 0, error |-> Sentinel]

\* ------------------------------------------------------------------ C7
\* C7: if a row of the file cannot be parsed, loadData fails with an error
\* and the dataset remains unpopulated; it never returns normally holding
\* the rows that preceded the malformed one.  Stated of the runs whose
\* behaviour is defined.
C7_MalformedRowFailsLoad ==
  (loads > 0 /\ lastOpened /\ HasMalformedRow /\ RunDefined)
    => (lastResult = "threw" /\ wavelength_ = <<>> /\ n_ = <<>> /\ k_ = <<>>)

\* ------------------------------------------------------------------ C8
\* C8: a loadData call that cannot open the file raises an error and leaves
\* wavelength_, n_ and k_ as they were before the call, and writes no load
\* summary.
C8_OpenFailureTouchesNothing ==
  [][(loads' = loads + 1 /\ ~lastOpened')
       => /\ lastResult' = "threw"
          /\ wavelength_' = wavelength_
          /\ n_' = n_
          /\ k_' = k_
          /\ loadSummary' = loadSummary]_vars

\* A call that could not open the file, made on a Material that an earlier
\* call had populated.
C8_Witness ==
  /\ lastResult = "threw"
  /\ ~lastOpened
  /\ Len(wavelength_) > 0
  /\ Len(loadSummary) = loads - 1

\* ------------------------------------------------------------------ C9
\* C9: a sample whose wavelength is zero or negative is rejected at load
\* time: no dataset after a successful load holds a wavelength <= 0, and no
\* infinite frequency or energy reaches the fit.
C9_NonPositiveWavelengthRejected ==
  /\ lastResult = "returned" => \A i \in 1..Len(wavelength_) : wavelength_[i] > 0
  /\ \A i \in 1..Len(omega) : omega[i] # PosInf /\ energy[i] # PosInf

\* ----------------------------------------------------------------- C10
\* C10: whenever loadData gets to its load summary the sample sequence is
\* non-empty, so front() and back() are read on a non-empty sequence, and
\* the samples are in the order of the rows of the input file.
C10_LoadedDatasetNonEmptyInOrder ==
  /\ lastResult # "crashed"
  /\ lastResult = "returned" =>
       /\ Len(wavelength_) > 0
       /\ \E c \in 0..loads :
            /\ wavelength_ = Repeat(Column(ParsedRows(file), 1), c)
            /\ n_ = Repeat(Column(ParsedRows(file), 2), c)
            /\ k_ = Repeat(Column(ParsedRows(file), 3), c)

FitOf(om, e1, e2, einf, wpmin, wpmax, dwp, gmin, gmax, dg) ==
  LET grid == { p \in { <<wpmin + i * dwp, gmin + j * dg>> :
                          i \in 0..(wpmax - wpmin), j \in 0..(gmax - gmin) } :
                  p[1] < wpmax /\ p[2] < gmax }
      err == [p \in grid |-> computeError(om, einf, p[1], p[2], e1, e2)]
      good == { p \in grid : BelowSentinel(err[p]) }
  IN  IF good = {} THEN <<0, 0, Sentinel>>
      ELSE LET best == CHOOSE p \in good :
                         \A q \in good :
                           \/ err[p] < err[q]
                           \/ (err[p] = err[q] /\ (p = q \/ LexLess(p, q)))
           IN  <<best[1], best[2], err[best]>>

\* C12: the fit is deterministic: best_omega_p, best_gamma and best_error at
\* the end of the search, and the values reported, are a function of the
\* data sequences (omega, eps1, eps2) and the configuration (eps_inf, window,
\* ranges, steps) and of nothing else, so two runs on the same inputs end
\* with identical results.
C12_ResultIsFunctionOfInputs ==
  LET fit == FitOf(omega, eps1_data, eps2_data, eps_inf,
                   omega_p_min, omega_p_max, domega_p, gamma_min, gamma_max, dgamma)
  IN  /\ SearchDone => <<best_omega_p, best_gamma, best_error>> = fit
      /\ FitEnded =>
            fitReport = << [omega_p |-> fit[1], gamma |-> fit[2], error |-> fit[3]] >>

\* A finished search of at least four points on data loaded by two calls,
\* with a best error that is neither 0 nor the sentinel.
C12_Witness ==
  /\ pc = "done"
  /\ loads = 2
  /\ Len(visited) >= 4
  /\ best_error > 0
  /\ best_error < Sentinel

\* ----------------------------------------------------------------- C13
\* C13: after any sequence of loadData calls, repeated (appending) ones
\* included, wavelength_, n_ and k_ have the same length; so every index
\* computeEpsilon uses on n_ and k_ is within bounds, and so is every index
\* computeError uses on eps1_data and eps2_data when main calls it with
\* omega and the result of computeEpsilon.
C13_VectorsSameLength ==
  /\ Len(n_) = Len(wavelength_)
  /\ Len(k_) = Len(wavelength_)
  /\ \A i \in 1..Len(wavelength_) : i \in DOMAIN n_ /\ i \in DOMAIN k_
  /\ SearchStarted =>
        /\ Len(omega) = Len(wavelength_)
        /\ Len(eps1_data) = Len(omega)
        /\ Len(eps2_data) = Len(omega)
        /\ \A i \in 1..Len(omega) : i \in DOMAIN eps1_data /\ i \in DOMAIN eps2_data

\* The search running on four samples that two loadData calls appended.
C13_Witness ==
  /\ pc = "inner"
  /\ loads = 2
  /\ Len(wavelength_) = 4
  /\ Len(omega) = 4
  /\ visited # <<>>

\* ----------------------------------------------------------------- C14
\* Adding the step changes the loop variable: x + step rounds to a value
\* above x for every representable x of the range, on both axes.
StepsAdvance ==
  /\ \A w \in omega_p_min..(omega_p_max - 1) :
        RoundDouble(w) = w => PlusEq(w, domega_p) > w
  /\ \A g \in gamma_min..(gamma_max - 1) :
        RoundDouble(g) = g => PlusEq(g, dgamma) > g

\* C14 as written: with finite bounds and strictly positive steps a search
\* that has started ends, the report and the model computation included.
C14_Original ==
  (/\ SearchStarted
   /\ omega_p_max < PosInf
   /\ gamma_max < PosInf
   /\ domega_p > 0
   /\ dgamma > 0) ~> (pc = "done")

\* C14 as amended: with finite bounds and steps that change the loop
\* variable they are added to, a search that has started ends, whatever the
\* data: each loop is left only when its condition fails (there is no early
\* exit), and at the end the report is written and the model permittivity
\* is computed for every sample.
C14_SearchTerminates ==
  /\ [][(pc = "inner" /\ pc' # "inner") => (~InnerCond(gamma) /\ pc' = "outer")]_vars
  /\ [][(pc = "outer" /\ pc' # "outer")
          => (pc' = "inner" <=> OuterCond(omega_p)) /\ (pc' = "report" <=> ~OuterCond(omega_p))]_vars
  /\ [](pc = "done" => (/\ Len(fitReport) = 1
                        /\ Len(eps1_model) = Len(omega)
                        /\ Len(eps2_model) = Len(omega)))
  /\ (SearchStarted /\ StepsAdvance /\ omega_p_max < PosInf /\ gamma_max < PosInf)
        ~> (pc = "done")

\* A finished search whose damping rate crossed 2^Precision: from 7 the
\* step 2 led to 8, and the scan went on to 10.
C14_Witness ==
  /\ pc = "done"
  /\ StepsAdvance
  /\ gamma_min = 1
  /\ dgamma = 2
  /\ \E i \in 1..(Len(visited) - 1) :
        /\ visited[i][2] = 8
        /\ visited[i + 1][2] = 10

====
